---------------------------- MODULE Spec2Model ----------------------------
(***************************************************************************)
(* Sentra Emo: text -> sentiment / emotion / VAD / stress service.         *)
(*                                                                         *)
(* The module models                                                       *)
(*   - app/main.py     : the /analyze handler and the metrics buffers,     *)
(*   - app/analysis.py : VADMapper, init_vad_mapper, init_negative_labels, *)
(*                       derive_stress and friends,                        *)
(*   - app/models.py   : _normalize_scores, analyze_sentiment,             *)
(*                       analyze_emotions.                                 *)
(* Floats are modelled as exact rationals <<num, den>> (den > 0, lowest    *)
(* terms), so "equal" means equal without floating tolerance.              *)
(***************************************************************************)
EXTENDS Integers, Sequences, FiniteSets, TLC

VARIABLES
    \* app/main.py: _metrics
    inference_latencies_ms,   \* _metrics["inference_latencies_ms"]
    inference_count,          \* _metrics["inference_count"]
    error_count,              \* _metrics["error_count"]
    emotion_top1_scores,      \* _metrics["emotion_top1_scores"]
    emotion_top1_times,       \* _metrics["emotion_top1_times"]
    now,                      \* last value time.perf_counter() gave _record_emotion_top1
    resp,                     \* HTTP status of the last /analyze request (0: none yet)
    \* app/models.py: ModelManager
    emotion_model_id,         \* models._emotion_model_id ("None" until loaded)
    \* app/analysis.py: module globals
    vad_mapper,               \* _vad_mapper
    negative_labels,          \* _negative_labels
    last_emotion_dir,         \* _last_emotion_dir
    vad_status,               \* _vad_status
    \* environment: the files init_vad_mapper / init_negative_labels look for
    fs,
    \* a call of one function of the core and what it returned
    call,
    ret,
    \* the VADMapper objects built so far, by identity, and two handlers that
    \* run at the same time
    heap,                     \* the objects; an object's index is its identity
    mapper_ref,               \* the object _vad_mapper names (0: None)
    writer,                   \* a handler inside init_vad_mapper
    reader                    \* a handler inside VADMapper.map_distribution

vars == << inference_latencies_ms, inference_count, error_count,
           emotion_top1_scores, emotion_top1_times, now, resp,
           emotion_model_id, vad_mapper, negative_labels, last_emotion_dir,
           vad_status, fs, call, ret, heap, mapper_ref, writer, reader >>

metrics_vars == << inference_latencies_ms, inference_count, error_count,
                   emotion_top1_scores, emotion_top1_times, now >>

analysis_vars == << vad_mapper, negative_labels, last_emotion_dir, vad_status >>

thread_vars == << heap, mapper_ref, writer, reader >>

-----------------------------------------------------------------------------
(* Exact rational arithmetic standing for Python floats.                   *)

RECURSIVE GCD(_, _)
GCD(a, b) == IF b = 0 THEN a ELSE GCD(b, a % b)

Abs(x) == IF x < 0 THEN -x ELSE x

\* the rational n/d in lowest terms with a positive denominator
Rat(n, d) ==
    LET g == GCD(Abs(n), Abs(d))
        s == IF d < 0 THEN -1 ELSE 1
    IN  << (s * n) \div g, (s * d) \div g >>

RZero == Rat(0, 1)
ROne == Rat(1, 1)
RHalf == Rat(1, 2)

RAdd(x, y) == Rat(x[1] * y[2] + y[1] * x[2], x[2] * y[2])
RSub(x, y) == Rat(x[1] * y[2] - y[1] * x[2], x[2] * y[2])
RMul(x, y) == Rat(x[1] * y[1], x[2] * y[2])
\* x / y for y # 0
RDiv(x, y) == Rat(x[1] * y[2], x[2] * y[1])
\* n1/d1 < n2/d2 for d1, d2 > 0, by comparing quotients and then the
\* reciprocals of the remainders (no product, hence no overflow)
RECURSIVE FracLess(_, _, _, _)
FracLess(n1, d1, n2, d2) ==
    LET q1 == n1 \div d1
        q2 == n2 \div d2
        r1 == n1 % d1
        r2 == n2 % d2
    IN  IF q1 # q2 THEN q1 < q2
        ELSE IF r2 = 0 THEN FALSE
        ELSE IF r1 = 0 THEN TRUE
        ELSE FracLess(d2, r2, d1, r1)

RLt(x, y) == FracLess(x[1], x[2], y[1], y[2])
RLe(x, y) == ~RLt(y, x)
RMax(x, y) == IF RLt(x, y) THEN y ELSE x
RMin(x, y) == IF RLt(y, x) THEN y ELSE x

\* sum(seq) of a sequence of rationals, left to right as Python's sum()
RECURSIVE RSum(_)
RSum(s) == IF s = << >> THEN RZero
           ELSE RAdd(RSum(SubSeq(s, 1, Len(s) - 1)), s[Len(s)])

-----------------------------------------------------------------------------
(* app/main.py: the metrics buffers                                        *)

\* main.py:33  `if len(buf) > 2000`
BufferCap == 2000
\* main.py:34  `del buf[: len(buf) - 1000]`
BufferKeep == 1000

\* a compaction that keeps the oldest entries instead of the newest
CompactBuffer_KeepOldest(buf) ==
    IF Len(buf) > BufferCap THEN SubSeq(buf, 1, BufferKeep) ELSE buf

\* a compaction that starts one entry too late
CompactBuffer_LateByOne(buf) ==
    IF Len(buf) > BufferCap + 1
    THEN SubSeq(buf, Len(buf) - BufferKeep + 1, Len(buf))
    ELSE buf

\* del buf[: len(buf) - 1000] once len(buf) > 2000 (main.py:33-34)
CompactBuffer(buf) ==
    IF Len(buf) > BufferCap
    THEN SubSeq(buf, Len(buf) - BufferKeep + 1, Len(buf))
    ELSE buf

\* _record_latency_ms: the new latency buffer
record_latency_ms(buf, ms) == CompactBuffer(Append(buf, ms))

\* _record_emotion_top1 without the compaction of the timestamps
record_emotion_top1_TimesKept(scores, times, score, t) ==
    [scores |-> CompactBuffer(Append(scores, score)), times |-> Append(times, t)]

\* _record_emotion_top1 with a compaction that keeps the oldest timestamps
record_emotion_top1_OldestTimes(scores, times, score, t) ==
    [scores |-> CompactBuffer(Append(scores, score)),
     times  |-> IF Len(scores) + 1 > BufferCap
                THEN SubSeq(Append(times, t), 1, BufferKeep)
                ELSE Append(times, t)]

\* _record_emotion_top1: the new (scores, times) buffers; the compaction of
\* both is decided by the length of the scores buffer alone
record_emotion_top1(scores, times, score, t) ==
    LET s1 == Append(scores, score)
        t1 == Append(times, t)
    IN  IF Len(s1) > BufferCap
        THEN [scores |-> SubSeq(s1, Len(s1) - BufferKeep + 1, Len(s1)),
              times  |-> SubSeq(t1, Len(t1) - BufferKeep + 1, Len(t1))]
        ELSE [scores |-> s1, times |-> t1]

-----------------------------------------------------------------------------
(* Labels.  str.lower() is modelled by its table on the labels in use.     *)

Lower(l) ==
    CASE l = "Joy" -> "joy"
      [] l = "Sadness" -> "sadness"
      [] l = "Anger" -> "anger"
      [] l = "Happy" -> "happy"
      [] l = "Sad" -> "sad"
      [] l = "Gloom" -> "gloom"
      [] OTHER -> l

\* A Python dict is a sequence of <<key, value>> pairs in insertion order.
DictKeys(d) == { d[i][1] : i \in 1..Len(d) }

\* {f(k): v for k, v in d.items()} with keys passed through Lower: a later
\* pair overwrites an earlier one with the same lower-cased key
LowerKeyed(d) ==
    [ k \in { Lower(d[i][1]) : i \in 1..Len(d) } |->
        LET i == CHOOSE i \in 1..Len(d) :
                    /\ Lower(d[i][1]) = k
                    /\ \A j \in (i + 1)..Len(d) : Lower(d[j][1]) # k
        IN  d[i][2] ]

-----------------------------------------------------------------------------
(* app/analysis.py: VADMapper                                              *)

\* VADMapper.map_label's value on a miss (analysis.py:46)
NeutralVAD == << RHalf, RHalf, RHalf >>

\* _vad_mapper = None
NoMapper == [is_none |-> TRUE, mapping |-> << >>, alias |-> << >>]

\* VADMapper.__init__: lower-cased keys; alias values lower-cased too
VADMapper(mapping, alias) ==
    [is_none |-> FALSE,
     mapping |-> LowerKeyed(mapping),
     alias   |-> LET a == LowerKeyed(alias)
                 IN  [k \in DOMAIN a |-> Lower(a[k])] ]

\* VADMapper.canonical
canonical(mapper, label) ==
    LET l == Lower(label)
    IN  IF l \in DOMAIN mapper.alias THEN mapper.alias[l] ELSE l

\* map_label with a zero vector on a miss
map_label_MissZero(mapper, label) ==
    LET key == canonical(mapper, label)
    IN  IF key \in DOMAIN mapper.mapping THEN mapper.mapping[key]
        ELSE << RZero, RZero, RZero >>

\* VADMapper.map_label
map_label(mapper, label) ==
    LET key == canonical(mapper, label)
    IN  IF key \in DOMAIN mapper.mapping THEN mapper.mapping[key] ELSE NeutralVAD

\* the loop of VADMapper.map_distribution over the first n pairs:
\* <<v, a, d, total>>
RECURSIVE map_distribution_loop(_, _, _)
map_distribution_loop(mapper, distribution, n) ==
    LET step(acc, score, vad) ==
            << RAdd(acc[1], RMul(score, vad[1])),
               RAdd(acc[2], RMul(score, vad[2])),
               RAdd(acc[3], RMul(score, vad[3])),
               RAdd(acc[4], score) >>
    IN  IF n = 0 THEN << RZero, RZero, RZero, RZero >>
        ELSE step(map_distribution_loop(mapper, distribution, n - 1),
                  distribution[n][2],
                  map_label(mapper, distribution[n][1]))

\* VADMapper.map_distribution
map_distribution(mapper, distribution) ==
    LET average(acc) ==
            IF RLe(acc[4], RZero) THEN NeutralVAD
            ELSE << RDiv(acc[1], acc[4]), RDiv(acc[2], acc[4]), RDiv(acc[3], acc[4]) >>
    IN  IF distribution = << >> THEN NeutralVAD
        ELSE average(map_distribution_loop(mapper, distribution, Len(distribution)))

\* VADMapper.unknown_labels; the sorted duplicate-free list is kept as a set
unknown_labels(mapper, labels) ==
    { labels[i] : i \in { j \in 1..Len(labels) :
                            canonical(mapper, labels[j]) \notin DOMAIN mapper.mapping } }

-----------------------------------------------------------------------------
(* The configuration files (app/config.py and the files it points at).     *)
(* A JSON object is a sequence of <<key, value>> pairs; a VAD entry is     *)
(* [kind, items, axes]: a list of numbers, an object of named axes, or     *)
(* something else.                                                         *)

NoAxes == [x \in {} |-> RZero]
JList(items) == [kind |-> "list", items |-> items, axes |-> NoAxes]
JDict(axes) == [kind |-> "dict", items |-> << >>, axes |-> axes]
JBad == [kind |-> "bad", items |-> << >>, axes |-> NoAxes]

\* the directories of the emotion classifiers
EmotionDirs == {"models/emotion/a", "models/emotion/b", "models/emotion/c"}

\* PROJECT_ROOT / "models" / "emotion" (analysis.py:248)
DefaultEmotionDir == "models/emotion"

\* <dir>/vad_map.json; << >> when the file is absent
VadMapFile(dir) ==
    CASE dir = "models/emotion/a" ->
           << << "Joy", JList(<< Rat(9, 10), Rat(6, 10), Rat(7, 10) >>) >>,
              << "sadness", JDict([valence |-> Rat(1, 10), arousal |-> Rat(4, 10),
                                   dominance |-> Rat(3, 10)]) >>,
              << "Anger", JDict([valence |-> Rat(1, 5), arousal |-> Rat(4, 5)]) >>,
              << "bored", JList(<< Rat(1, 2), Rat(1, 5) >>) >>,
              << "note", JBad >> >>
      [] dir = "models/emotion/c" ->
           << << "joy", JList(<< Rat(3, 10), Rat(1, 2), Rat(1, 2) >>) >>,
              << "sadness", JList(<< Rat(4, 5), Rat(2, 5), Rat(3, 10) >>) >>,
              << "fear", JList(<< Rat(1, 10), Rat(9, 10), Rat(1, 5) >>) >> >>
      [] OTHER -> << >>

\* <dir>/label_alias.json; << >> when the file is absent
AliasFile(dir) ==
    CASE dir = "models/emotion/a" ->
           << << "Happy", "Joy" >>, << "sad", "Sadness" >> >>
      [] OTHER -> << >>

\* app/vad_maps/default.json, when it exists
DefaultMapFile ==
    << << "neutral", JList(<< Rat(1, 2), Rat(3, 10), Rat(1, 2) >>) >>,
       << "joy", JList(<< Rat(4, 5), Rat(1, 2), Rat(3, 5) >>) >>,
       << "sadness", JList(<< Rat(1, 5), Rat(3, 10), Rat(3, 10) >>) >> >>

\* the classifier's id2label, in index order
ModelLabels(dir) ==
    CASE dir = "models/emotion/a" -> << "Joy", "Sadness", "Anger" >>
      [] dir = "models/emotion/b" -> << "joy", "Gloom" >>
      [] dir = "models/emotion/c" -> << "joy", "sadness", "fear" >>
      [] OTHER -> << >>

\* negative_emotions.json as the search finds it: its JSON shape and content
NegFileKinds == {"absent", "list", "labels", "truthy", "scalar", "corrupt"}

NegFileData(kind) ==
    CASE kind = "list" ->
           [shape |-> "list", items |-> << "Sadness", "Anger", "Sad" >>, pairs |-> << >>]
      [] kind = "labels" ->
           [shape |-> "labels", items |-> << "Gloom", "fear" >>, pairs |-> << >>]
      [] kind = "truthy" ->
           [shape |-> "dict", items |-> << >>,
            pairs |-> << << "anger", TRUE >>, << "joy", FALSE >>, << "Sad", TRUE >> >>]
      [] kind = "scalar" ->
           [shape |-> "scalar", items |-> << >>, pairs |-> << >>]
      [] OTHER ->
           [shape |-> "corrupt", items |-> << >>, pairs |-> << >>]

\* the file systems a deployment may have
\* app/vad_maps/default.json: absent, well-formed JSON, or not parseable
DefaultMapKinds == { "absent", "valid", "corrupt" }

FileSystems == [default_map : DefaultMapKinds, neg_file : NegFileKinds]

\* where the search goes after the model's own directory
ParentDir == "models/emotion"
SharedConfigDir == "app/config"
DefaultMapPath == "app/vad_maps/default.json"

\* the content of the map file at a path get_vad_config_paths returned
MapFileAt(path) ==
    CASE path = DefaultMapPath -> DefaultMapFile
      [] path = SharedConfigDir \o "/vad_map.json" -> VadMapFile(SharedConfigDir)
      [] path = ParentDir \o "/vad_map.json" -> VadMapFile(ParentDir)
      [] OTHER -> VadMapFile(CHOOSE d \in EmotionDirs : path = d \o "/vad_map.json")

\* the content of the alias file at a path get_vad_config_paths returned
AliasFileAt(path) ==
    CASE path = SharedConfigDir \o "/label_alias.json" -> AliasFile(SharedConfigDir)
      [] path = ParentDir \o "/label_alias.json" -> AliasFile(ParentDir)
      [] OTHER -> AliasFile(CHOOSE d \in EmotionDirs : path = d \o "/label_alias.json")

\* get_vad_config_paths(emo_dir): the first file that exists, searching the
\* model's directory, its parent, the shared configuration and, for the map,
\* the built-in default; "None" stands for None
get_vad_config_paths(files, dir) ==
    [map     |-> IF VadMapFile(dir) # << >> THEN dir \o "/vad_map.json"
                 ELSE IF VadMapFile(ParentDir) # << >>
                      THEN ParentDir \o "/vad_map.json"
                 ELSE IF VadMapFile(SharedConfigDir) # << >>
                      THEN SharedConfigDir \o "/vad_map.json"
                 ELSE IF files.default_map # "absent" THEN DefaultMapPath
                 ELSE "None",
     alias   |-> IF AliasFile(dir) # << >> THEN dir \o "/label_alias.json"
                 ELSE IF AliasFile(ParentDir) # << >>
                      THEN ParentDir \o "/label_alias.json"
                 ELSE IF AliasFile(SharedConfigDir) # << >>
                      THEN SharedConfigDir \o "/label_alias.json"
                 ELSE "None",
     unknown |-> dir \o "/unknown_labels.json"]

\* get_negative_config_paths(emo_dir)["neg"]
get_negative_config_paths(files, dir) ==
    IF files.neg_file # "absent" THEN "app/config/negative_emotions.json" ELSE "None"

\* get_negative_valence_threshold()
get_negative_valence_threshold == Rat(2, 5)

-----------------------------------------------------------------------------
(* app/analysis.py: module state and its initialisers                      *)

\* one entry of _load_mapping_from_json; << >> for an entry that is skipped
load_mapping_entry(v) ==
    IF v.kind = "dict"
    THEN << << IF "valence" \in DOMAIN v.axes THEN v.axes["valence"] ELSE RHalf,
               IF "arousal" \in DOMAIN v.axes THEN v.axes["arousal"] ELSE RHalf,
               IF "dominance" \in DOMAIN v.axes THEN v.axes["dominance"] ELSE RHalf >> >>
    ELSE IF v.kind = "list" /\ Len(v.items) = 3
         THEN << << v.items[1], v.items[2], v.items[3] >> >>
         ELSE << >>

\* _load_mapping_from_json: the dict of the valid entries, in file order
RECURSIVE load_mapping_from_json(_)
load_mapping_from_json(data) ==
    IF data = << >> THEN << >>
    ELSE LET rest == load_mapping_from_json(SubSeq(data, 1, Len(data) - 1))
             k    == data[Len(data)][1]
             e    == load_mapping_entry(data[Len(data)][2])
         IN  IF e = << >> THEN rest ELSE Append(rest, << k, e[1] >>)

\* the table _ensure_default_mapper uses when default.json is absent
NeutralOnlyMapping == << << "neutral", << RHalf, Rat(3, 10), RHalf >> >> >>

\* json.loads in _load_mapping_from_json raises for the file at this path
load_mapping_raises(files, path) ==
    path = DefaultMapPath /\ files.default_map = "corrupt"

\* _ensure_default_mapper raises: it reads default.json, which does not parse
ensure_default_mapper_raises(mapper, files) ==
    mapper.is_none /\ load_mapping_raises(files, DefaultMapPath)

\* _ensure_default_mapper: the value of _vad_mapper afterwards (unchanged
\* when it raises)
ensure_default_mapper(mapper, files) ==
    IF ~mapper.is_none \/ files.default_map = "corrupt" THEN mapper
    ELSE IF files.default_map = "valid"
         THEN VADMapper(load_mapping_from_json(DefaultMapFile), << >>)
         ELSE VADMapper(NeutralOnlyMapping, << >>)

\* _vad_status at import
InitialVadStatus ==
    [emotion_model_dir      |-> "None",
     map_path               |-> "None",
     alias_path             |-> "None",
     unknown_labels_path    |-> "None",
     unknown_labels_count   |-> 0,
     unknown_labels         |-> {},
     negative_path          |-> "None",
     negative_labels_count  |-> 0,
     negative_labels_source |-> "None",
     negative_threshold     |-> << >>]

\* init_vad_mapper(emotion_model_dir, emotion_labels): the globals afterwards
\* and whether the call raised.  emotion_labels = << >> stands for None;
\* write_ok says whether writing unknown_labels.json succeeded (the status is
\* updated only after the write)
init_vad_mapper(mapper, status, files, emo_dir, emotion_labels, write_ok) ==
    LET raise ==
            [raised |-> TRUE, vad_mapper |-> mapper, last_emotion_dir |-> emo_dir,
             vad_status |-> status]
        record_unknowns(paths, mapper1, unknowns) ==
            [raised           |-> FALSE,
             vad_mapper       |-> mapper1,
             last_emotion_dir |-> emo_dir,
             vad_status       |->
                IF write_ok
                THEN [status EXCEPT !.emotion_model_dir = emo_dir,
                                    !.map_path = paths.map,
                                    !.alias_path = paths.alias,
                                    !.unknown_labels_path = paths.unknown,
                                    !.unknown_labels_count = Cardinality(unknowns),
                                    !.unknown_labels = unknowns]
                ELSE status]
        with_mapper(paths, mapper1) ==
            record_unknowns(paths, mapper1, unknown_labels(mapper1, emotion_labels))
        with_paths(paths) ==
            IF \/ paths.map = "None" /\ ensure_default_mapper_raises(mapper, files)
               \/ paths.map # "None" /\ load_mapping_raises(files, paths.map)
            THEN raise
            ELSE with_mapper(paths,
                IF paths.map = "None"
                THEN ensure_default_mapper(mapper, files)
                ELSE VADMapper(load_mapping_from_json(MapFileAt(paths.map)),
                               IF paths.alias # "None" THEN AliasFileAt(paths.alias)
                               ELSE << >>))
    IN  with_paths(get_vad_config_paths(files, emo_dir))

\* _negative_labels = None
NoNegativeLabels == [is_none |-> TRUE, labels |-> {}]

\* _load_negative_from_file: [ok, labels]; ok = FALSE stands for None
load_negative_from_file(data) ==
    CASE data.shape = "corrupt" -> [ok |-> FALSE, labels |-> {}]
      [] data.shape = "list" ->
           [ok |-> TRUE, labels |-> { Lower(data.items[i]) : i \in 1..Len(data.items) }]
      [] data.shape = "labels" ->
           [ok |-> TRUE, labels |-> { Lower(data.items[i]) : i \in 1..Len(data.items) }]
      [] data.shape = "dict" ->
           [ok |-> TRUE,
            labels |-> { Lower(data.pairs[i][1]) :
                           i \in { j \in 1..Len(data.pairs) : data.pairs[j][2] } }]
      [] OTHER -> [ok |-> TRUE, labels |-> {}]

\* a derivation that ignores the candidates and takes the table's keys
derive_negative_AllKeys(mapper, candidates, threshold) ==
    { canonical(mapper, k) :
        k \in { key \in DOMAIN mapper.mapping :
                  RLt(map_label(mapper, key)[1], threshold) } }

\* the labels init_negative_labels derives by V < threshold
derive_negative(mapper, candidates, threshold) ==
    { canonical(mapper, candidates[i]) :
        i \in { j \in 1..Len(candidates) :
                  RLt(map_label(mapper, candidates[j])[1], threshold) } }

\* the keys of the mapper's table as a sequence, for `list(mapping.keys())`
RECURSIVE SetToSeq(_)
SetToSeq(S) ==
    IF S = {} THEN << >>
    ELSE LET x == CHOOSE x \in S : TRUE IN << x >> \o SetToSeq(S \ {x})

\* init_negative_labels(emotion_model_dir, emotion_labels): the globals
\* afterwards and whether the call raised
init_negative_labels(mapper, status, files, emo_dir, emotion_labels) ==
    LET raise ==
            [raised |-> TRUE, negative_labels |-> NoNegativeLabels,
             vad_mapper |-> mapper, vad_status |-> status]
        from_file(neg_path, labels) ==
            [raised          |-> FALSE,
             negative_labels |-> [is_none |-> FALSE, labels |-> labels],
             vad_mapper      |-> mapper,
             vad_status      |->
                [status EXCEPT !.negative_path = neg_path,
                               !.negative_labels_count = Cardinality(labels),
                               !.negative_labels_source = "file"]]
        from_derived(mapper1, threshold, derived) ==
            [raised          |-> FALSE,
             negative_labels |-> [is_none |-> FALSE, labels |-> derived],
             vad_mapper      |-> mapper1,
             vad_status      |->
                [status EXCEPT !.negative_path = "None",
                               !.negative_labels_count = Cardinality(derived),
                               !.negative_labels_source = "derived",
                               !.negative_threshold = threshold]]
        derive(mapper1, threshold) ==
            from_derived(mapper1, threshold,
                derive_negative(mapper1,
                                IF emotion_labels # << >> THEN emotion_labels
                                ELSE SetToSeq(DOMAIN mapper1.mapping),
                                threshold))
        decide(neg_path, loaded) ==
            IF loaded.ok THEN from_file(neg_path, loaded.labels)
            ELSE IF ensure_default_mapper_raises(mapper, files) THEN raise
            ELSE derive(ensure_default_mapper(mapper, files),
                        get_negative_valence_threshold)
        with_path(neg_path) ==
            decide(neg_path,
                   IF neg_path # "None"
                   THEN load_negative_from_file(NegFileData(files.neg_file))
                   ELSE [ok |-> FALSE, labels |-> {}])
    IN  with_path(get_negative_config_paths(files, emo_dir))

-----------------------------------------------------------------------------
(* app/analysis.py: the pipeline functions                                 *)

\* normalize_distribution
normalize_distribution(pairs) ==
    LET total == RSum([i \in 1..Len(pairs) |-> RMax(RZero, pairs[i][2])])
        n     == IF pairs # << >> THEN Len(pairs) ELSE 1
    IN  IF RLe(total, RZero)
        THEN [i \in 1..Len(pairs) |-> << pairs[i][1], Rat(1, n) >>]
        ELSE [i \in 1..Len(pairs) |->
                << pairs[i][1], RDiv(RMax(RZero, pairs[i][2]), total) >>]

\* emotions_to_vad: [raised, vad, vad_mapper]
emotions_to_vad(mapper, files, distribution) ==
    LET with_mapper(mapper1) ==
            [raised |-> ensure_default_mapper_raises(mapper, files),
             vad |-> map_distribution(mapper1, distribution), vad_mapper |-> mapper1]
    IN  with_mapper(ensure_default_mapper(mapper, files))

\* canonicalize_distribution: [raised, pairs, vad_mapper]
canonicalize_distribution(mapper, files, distribution) ==
    LET with_mapper(mapper1) ==
            [raised |-> ensure_default_mapper_raises(mapper, files),
             pairs |-> [i \in 1..Len(distribution) |->
                          << canonical(mapper1, distribution[i][1]),
                             distribution[i][2] >>],
             vad_mapper |-> mapper1]
    IN  with_mapper(ensure_default_mapper(mapper, files))

\* the weights and the band limits of derive_stress (analysis.py:255-262)
StressValenceWeight == Rat(6, 10)
StressArousalWeight == Rat(4, 10)
StressNegativeWeight == Rat(15, 100)
StressLowLimit == Rat(33, 100)
StressMediumLimit == Rat(66, 100)

\* the neg_sum loop looking labels up lower-cased only, the alias table unused
RECURSIVE neg_sum_loop_NoAlias(_, _, _, _)
neg_sum_loop_NoAlias(mapper, neg, distribution, n) ==
    IF n = 0 THEN RZero
    ELSE LET acc   == neg_sum_loop_NoAlias(mapper, neg, distribution, n - 1)
             canon == Lower(distribution[n][1])
         IN  IF canon \in neg.labels THEN RAdd(acc, distribution[n][2]) ELSE acc

\* the loop of derive_stress over the first n pairs: neg_sum
RECURSIVE neg_sum_loop(_, _, _, _)
neg_sum_loop(mapper, neg, distribution, n) ==
    IF n = 0 THEN RZero
    ELSE LET acc   == neg_sum_loop(mapper, neg, distribution, n - 1)
             lab   == distribution[n][1]
             canon == IF ~mapper.is_none THEN canonical(mapper, lab) ELSE Lower(lab)
         IN  IF canon \in neg.labels THEN RAdd(acc, distribution[n][2]) ELSE acc

\* stress_level with the limits taken inclusively
stress_level_Inclusive(stress) ==
    IF RLe(stress, StressLowLimit) THEN "low"
    ELSE IF RLe(stress, StressMediumLimit) THEN "medium"
    ELSE "high"

\* the level derive_stress gives a clamped stress value
stress_level(stress) ==
    IF RLt(stress, StressLowLimit) THEN "low"
    ELSE IF RLt(stress, StressMediumLimit) THEN "medium"
    ELSE "high"

\* derive_stress(valence, arousal, distribution): the result, the globals
\* afterwards (the negative labels are initialised on first use) and whether
\* the call raised, which it does when that initialisation raises
derive_stress(mapper, neg, status, files, valence, arousal, distribution) ==
    LET result(g, stress) ==
            [raised          |-> g.raised,
             stress          |-> stress,
             level           |-> stress_level(stress),
             negative_labels |-> g.negative_labels,
             vad_mapper      |-> g.vad_mapper,
             vad_status      |-> g.vad_status]
        score(g, neg_sum) ==
            result(g,
                RMax(RZero, RMin(ROne,
                    RAdd(RAdd(RMul(StressValenceWeight, RSub(ROne, valence)),
                              RMul(StressArousalWeight, arousal)),
                         RMul(StressNegativeWeight, neg_sum)))))
        with_globals(g) ==
            score(g, neg_sum_loop(g.vad_mapper, g.negative_labels, distribution,
                                  Len(distribution)))
    IN  with_globals(
            IF neg.is_none
            THEN init_negative_labels(mapper, status, files, DefaultEmotionDir, << >>)
            ELSE [raised |-> FALSE, negative_labels |-> neg, vad_mapper |-> mapper,
                  vad_status |-> status])

\* get_vad_status: the globals afterwards and whether the call raised.  The
\* unknown-labels file it reads back is the one init_vad_mapper wrote, so the
\* snapshot keeps its list.
get_vad_status(mapper, files) ==
    [raised     |-> ensure_default_mapper_raises(mapper, files),
     vad_mapper |-> ensure_default_mapper(mapper, files)]

-----------------------------------------------------------------------------
(* app/models.py.  A sentiment label is a sequence of characters, so that  *)
(* lower(), split() and the substring tests are computed.                  *)

LowerChar(c) ==
    CASE c = "A" -> "a"
      [] c = "B" -> "b"
      [] c = "C" -> "c"
      [] c = "D" -> "d"
      [] c = "E" -> "e"
      [] c = "F" -> "f"
      [] c = "G" -> "g"
      [] c = "H" -> "h"
      [] c = "I" -> "i"
      [] c = "J" -> "j"
      [] c = "K" -> "k"
      [] c = "L" -> "l"
      [] c = "M" -> "m"
      [] c = "N" -> "n"
      [] c = "O" -> "o"
      [] c = "P" -> "p"
      [] c = "Q" -> "q"
      [] c = "R" -> "r"
      [] c = "S" -> "s"
      [] c = "T" -> "t"
      [] c = "U" -> "u"
      [] c = "V" -> "v"
      [] c = "W" -> "w"
      [] c = "X" -> "x"
      [] c = "Y" -> "y"
      [] c = "Z" -> "z"
      [] OTHER -> c

\* str.lower()
LowerStr(l) == [i \in 1..Len(l) |-> LowerChar(l[i])]

\* `sub in l`
Contains(l, sub) ==
    \E i \in 1..(Len(l) - Len(sub) + 1) : SubSeq(l, i, i + Len(sub) - 1) = sub

\* l.startswith(prefix)
StartsWith(l, prefix) ==
    Len(l) >= Len(prefix) /\ SubSeq(l, 1, Len(prefix)) = prefix

\* the first token of l.split(): the characters before the first blank
\* (labels are stripped by _normalize_scores)
RECURSIVE FirstToken(_)
FirstToken(l) ==
    IF l = << >> \/ l[1] = " " THEN << >>
    ELSE << l[1] >> \o FirstToken(SubSeq(l, 2, Len(l)))

DigitValue(c) ==
    CASE c = "0" -> 0 [] c = "1" -> 1 [] c = "2" -> 2 [] c = "3" -> 3 [] c = "4" -> 4
      [] c = "5" -> 5 [] c = "6" -> 6 [] c = "7" -> 7 [] c = "8" -> 8 [] c = "9" -> 9
      [] OTHER -> -1

\* int(token): -1 stands for the ValueError / IndexError that skips the label
RECURSIVE ParseInt(_)
ParseInt(tok) ==
    IF tok = << >> THEN -1
    ELSE IF DigitValue(tok[Len(tok)]) < 0 THEN -1
    ELSE IF Len(tok) = 1 THEN DigitValue(tok[1])
    ELSE LET hi == ParseInt(SubSeq(tok, 1, Len(tok) - 1))
         IN  IF hi < 0 THEN -1 ELSE 10 * hi + DigitValue(tok[Len(tok)])

S_pos == << "p", "o", "s" >>
S_positive == << "p", "o", "s", "i", "t", "i", "v", "e" >>
S_neg == << "n", "e", "g" >>
S_negative == << "n", "e", "g", "a", "t", "i", "v", "e" >>
S_neu == << "n", "e", "u" >>
S_neutral == << "n", "e", "u", "t", "r", "a", "l" >>

\* dict helpers on sequences of <<key, value>> pairs
DictHas(d, k) == \E i \in 1..Len(d) : d[i][1] = k

DictGet(d, k, default) ==
    IF DictHas(d, k) THEN d[CHOOSE i \in 1..Len(d) : d[i][1] = k][2] ELSE default

\* d[k] = v
DictPut(d, k, v) ==
    IF DictHas(d, k)
    THEN [i \in 1..Len(d) |-> IF d[i][1] = k THEN << k, v >> ELSE d[i]]
    ELSE Append(d, << k, v >>)

DictValues(d) == [i \in 1..Len(d) |-> d[i][2]]

\* ModelManager._normalize_scores(items, normalize=...): items is the list of
\* (label, score) the pipeline returned
normalize_scores(items, normalize) ==
    LET total == RSum([i \in 1..Len(items) |-> RMax(RZero, items[i][2])])
    IN  IF normalize /\ RLt(RZero, total)
        THEN [i \in 1..Len(items) |->
                << items[i][1], RDiv(RMax(RZero, items[i][2]), total) >>]
        ELSE items

\* get_sentiment_neutral_mode()
NeutralModes == {"auto", "on", "off"}

\* "nlptown/bert-base-multilingual-uncased-sentiment" as path components
NlptownModelId == << "nlptown", "bert-base-multilingual-uncased-sentiment" >>

\* max(1e-9, ...) in the star branch (models.py:182)
StarEpsilon == << 1, 1000000000 >>

\* the loop over pairs that fills star_scores (models.py:171-178)
RECURSIVE star_scores_loop(_, _)
star_scores_loop(pairs, n) ==
    IF n = 0 THEN << >>
    ELSE LET acc  == star_scores_loop(pairs, n - 1)
             star == ParseInt(FirstToken(pairs[n][1]))
         IN  IF star < 0 THEN acc ELSE DictPut(acc, star, pairs[n][2])

\* the loop over pairs that fills tmp and unknown_sum (models.py:211-221)
RECURSIVE generic_scores_loop(_, _)
generic_scores_loop(pairs, n) ==
    IF n = 0 THEN [tmp |-> << >>, unknown_sum |-> RZero]
    ELSE LET acc == generic_scores_loop(pairs, n - 1)
             l   == LowerStr(pairs[n][1])
             s   == pairs[n][2]
             add(k) == [acc EXCEPT !.tmp = DictPut(acc.tmp, k, RAdd(DictGet(acc.tmp, k, RZero), s))]
         IN  IF Contains(l, S_pos) \/ Contains(l, S_positive) THEN add("positive")
             ELSE IF Contains(l, S_neg) \/ Contains(l, S_negative) THEN add("negative")
             ELSE IF Contains(l, S_neu) \/ Contains(l, S_neutral) THEN add("neutral")
             ELSE [acc EXCEPT !.unknown_sum = RAdd(acc.unknown_sum, s)]

\* {k: v / total for k, v in d.items()}
DictScale(d, total) == [i \in 1..Len(d) |-> << d[i][1], RDiv(d[i][2], total) >>]

\* d.setdefault(k, 0.0)
DictSetDefault(d, k) == IF DictHas(d, k) THEN d ELSE Append(d, << k, RZero >>)

\* sum(d.values()) or 1.0
SumOrOne(d) == LET t == RSum(DictValues(d)) IN IF t = RZero THEN ROne ELSE t

\* the two-key result when neutral is dropped (models.py:185-194, 231-238)
drop_neutral(scores) ==
    LET pos   == DictGet(scores, "positive", RZero)
        neg   == DictGet(scores, "negative", RZero)
        denom == RAdd(pos, neg)
    IN  IF RLe(denom, RZero)
        THEN << << "positive", ROne >>, << "negative", RZero >> >>
        ELSE << << "positive", RDiv(pos, denom) >>, << "negative", RDiv(neg, denom) >> >>

\* the star branch of analyze_sentiment (models.py:169-194)
star_sentiment_scores(pairs, neutral_mode) ==
    LET by_policy(scores) ==
            IF neutral_mode = "off" THEN drop_neutral(scores) ELSE scores
        scaled(neg, neu, pos, total) ==
            by_policy(<< << "negative", RDiv(neg, total) >>,
                         << "neutral", RDiv(neu, total) >>,
                         << "positive", RDiv(pos, total) >> >>)
        buckets(neg, neu, pos) ==
            scaled(neg, neu, pos, RMax(StarEpsilon, RAdd(RAdd(neg, neu), pos)))
        with_stars(star_scores) ==
            buckets(RAdd(DictGet(star_scores, 1, RZero), DictGet(star_scores, 2, RZero)),
                    DictGet(star_scores, 3, RZero),
                    RAdd(DictGet(star_scores, 4, RZero), DictGet(star_scores, 5, RZero)))
    IN  with_stars(star_scores_loop(pairs, Len(pairs)))

\* `"neu" in lv or "neutral" in lv` for some id2label value (models.py:199-207)
model_has_neutral(id2label) ==
    \E i \in 1..Len(id2label) :
        LET lv == LowerStr(id2label[i])
        IN  Contains(lv, S_neu) \/ Contains(lv, S_neutral)

\* the generic branch of analyze_sentiment (models.py:196-244)
generic_sentiment_scores(pairs, id2label, neutral_mode) ==
    LET renormalized(three) == DictScale(three, SumOrOne(three))
        by_policy(has_neutral, scores) ==
            IF neutral_mode = "off" \/ (neutral_mode = "auto" /\ ~has_neutral)
            THEN drop_neutral(scores)
            ELSE renormalized(DictSetDefault(DictSetDefault(DictSetDefault(
                                  scores, "negative"), "neutral"), "positive"))
        normalized(has_neutral, tmp) ==
            by_policy(has_neutral, DictScale(tmp, SumOrOne(tmp)))
        folded(has_neutral, acc) ==
            normalized(has_neutral,
                IF (has_neutral /\ neutral_mode # "off") /\ RLt(RZero, acc.unknown_sum)
                THEN DictPut(acc.tmp, "neutral",
                             RAdd(DictGet(acc.tmp, "neutral", RZero), acc.unknown_sum))
                ELSE acc.tmp)
    IN  folded(model_has_neutral(id2label), generic_scores_loop(pairs, Len(pairs)))

\* max(scores.items(), key=lambda x: x[1])[0]: the first key of maximal value
argmax_label(scores) ==
    scores[CHOOSE i \in 1..Len(scores) :
              /\ \A j \in 1..Len(scores) : RLe(scores[j][2], scores[i][2])
              /\ \A j \in 1..(i - 1) : RLt(scores[j][2], scores[i][2])][1]

\* ModelManager.analyze_sentiment, given the loaded model (mid, id2label),
\* what the pipeline returned for the text, and the neutral mode
analyze_sentiment(mid, id2label, raw, neutral_mode) ==
    LET result(scores) ==
            [label |-> argmax_label(scores), scores |-> scores, raw_model |-> mid]
        with_pairs(pairs) ==
            result(IF StartsWith(mid, NlptownModelId)
                   THEN star_sentiment_scores(pairs, neutral_mode)
                   ELSE generic_sentiment_scores(pairs, id2label, neutral_mode))
    IN  with_pairs(normalize_scores(raw, TRUE))

\* list.sort(key=score, reverse=True): stable, descending
RECURSIVE sorted_desc(_)
sorted_desc(pairs) ==
    IF pairs = << >> THEN << >>
    ELSE LET rest == sorted_desc(SubSeq(pairs, 1, Len(pairs) - 1))
             x    == pairs[Len(pairs)]
             \* x goes after every element that is >= it
             k    == Cardinality({ i \in 1..Len(rest) : RLe(x[2], rest[i][2]) })
         IN  SubSeq(rest, 1, k) \o << x >> \o SubSeq(rest, k + 1, Len(rest))

\* seq[:k] with Python's meaning of a negative k
SliceTo(seq, k) ==
    IF k >= 0 THEN SubSeq(seq, 1, IF k < Len(seq) THEN k ELSE Len(seq))
    ELSE SubSeq(seq, 1, IF Len(seq) + k > 0 THEN Len(seq) + k ELSE 0)

\* max(pairs, key=score): the first pair of maximal score
max_pair(pairs) ==
    pairs[CHOOSE i \in 1..Len(pairs) :
             /\ \A j \in 1..Len(pairs) : RLe(pairs[j][2], pairs[i][2])
             /\ \A j \in 1..(i - 1) : RLt(pairs[j][2], pairs[i][2])]

\* f(seq): the pairs with score >= thr, in order
RECURSIVE at_least(_, _)
at_least(pairs, thr) ==
    IF pairs = << >> THEN << >>
    ELSE LET rest == at_least(SubSeq(pairs, 1, Len(pairs) - 1), thr)
             x    == pairs[Len(pairs)]
         IN  IF RLe(thr, x[2]) THEN Append(rest, x) ELSE rest

\* the multi-label branch without the fallback to the top entry
select_multi_label_NoFallback(pairs, thr, topk) ==
    LET truncate(selected) ==
            IF topk # 0 /\ Len(selected) > topk
            THEN SliceTo(selected, topk) ELSE selected
    IN  truncate(sorted_desc(at_least(pairs, thr)))

\* the multi-label branch of analyze_emotions (models.py:263-272)
select_multi_label(pairs, thr, topk) ==
    LET fallback(truncated) ==
            IF truncated = << >> /\ pairs # << >>
            THEN << max_pair(pairs) >>
            ELSE truncated
        truncate(selected) ==
            fallback(IF topk # 0 /\ Len(selected) > topk
                     THEN SliceTo(selected, topk) ELSE selected)
    IN  truncate(sorted_desc(at_least(pairs, thr)))

\* the single-label branch of analyze_emotions (models.py:274-278)
select_single_label(pairs, topk) ==
    LET truncate(sorted_pairs) ==
            IF topk # 0 /\ Len(sorted_pairs) > topk
            THEN SliceTo(sorted_pairs, topk) ELSE sorted_pairs
    IN  truncate(sorted_desc(pairs))

\* ModelManager.analyze_emotions, given what the pipeline returned for the
\* text and the configuration (is_emotion_multi_label, threshold, top-K)
analyze_emotions(raw, multi, thr, topk) ==
    LET select(pairs) ==
            IF multi THEN select_multi_label(pairs, thr, topk)
            ELSE select_single_label(pairs, topk)
    IN  select(normalize_scores(raw, ~multi))

-----------------------------------------------------------------------------
(* State at import and the bounded inputs.                                 *)

\* all sequences of at most n elements of S
SeqsUpTo(S, n) == UNION { [1..k -> S] : k \in 0..n }

\* no call has returned yet
NoRet == [done |-> FALSE]
\* the call raised instead of returning
Raised == [done |-> FALSE, raised |-> TRUE]
\* what a call that may raise leaves as its result
Outcome(raised, v) == IF raised THEN Raised ELSE [done |-> TRUE, value |-> v]
Returned(v) == [done |-> TRUE, value |-> v]
NoCall == [op |-> "none"]
\* a handler that is not inside the function
Idle == [pc |-> "idle"]

\* main.py:18-25, models.py:26-35
MetricsAtImport ==
    /\ inference_latencies_ms = << >>
    /\ inference_count = 0
    /\ error_count = 0
    /\ emotion_top1_scores = << >>
    /\ emotion_top1_times = << >>
    /\ now = 0
    /\ resp = 0
    /\ emotion_model_id = "None"

\* analysis.py:16-29, 72
AnalysisAtImport ==
    /\ vad_mapper = NoMapper
    /\ negative_labels = NoNegativeLabels
    /\ last_emotion_dir = "None"
    /\ vad_status = InitialVadStatus
    /\ heap = << >>
    /\ mapper_ref = 0
    /\ writer = Idle
    /\ reader = Idle

-----------------------------------------------------------------------------
(* The service: POST /analyze (main.py:116-194).                           *)

\* requests handled in one run of the model
MaxRequests == 2003
\* failing requests in one run of the model
MaxErrors == 1
\* successful requests with an empty emotion list in one run of the model
MaxEmpty == 1

\* the emotion model the deployment has under ./models/emotion
ServiceEmotionDir == "models/emotion/a"

\* use_emotion_label_alias() of the deployment
use_emotion_label_alias == TRUE

\* what analyze_emotions may hand to the handler
ServiceEmotionPairs ==
    { << >>,
      << << "Joy", Rat(3, 4) >>, << "Sadness", Rat(1, 4) >> >> }

\* successful requests so far that recorded no top-1 sample
EmptyCount == inference_count - error_count - now

\* what one call of the classifier pipeline does
PipeOutcomes == { "ok", "raise" }

\* the calls the pipeline receives in one analyze_sentiment or
\* analyze_emotions (models.py:158-161, 256-259): pipe(text, top_k=None) and,
\* when that raises, pipe(text, return_all_scores=True)
pipe_calls(first, second) ==
    IF first = "ok" THEN << "ok" >> ELSE << "raise", second >>

\* the exception leaves analyze_sentiment or analyze_emotions: only the one
\* of the second call does
classify_raises(first, second) == first = "raise" /\ second = "raise"

\* the request as the handler saw it: the outcomes of its classifier calls
AnalyzeCall(calls) == [op |-> "analyze", pipe_calls |-> calls]

\* the classifier calls of a request that fails in analyze_sentiment or in
\* analyze_emotions (main.py:143-144), the first call of a function that
\* returns being one of firsts
FailingPipeCalls(firsts) ==
    { pipe_calls("raise", "raise") }
        \cup { pipe_calls(s1, "ok") \o pipe_calls("raise", "raise") : s1 \in firsts }

\* the installed pipeline accepts top_k=None: a first call raises only when
\* the classifier itself fails
ServiceFirstCalls == { "ok" }

\* the except branch of analyze (main.py:189-194)
AnalyzeFailed ==
    /\ inference_count' = inference_count + 1
    /\ inference_latencies_ms' =
          record_latency_ms(inference_latencies_ms, inference_count + 1)
    /\ error_count' = error_count + 1
    /\ resp' = 500
    /\ UNCHANGED << emotion_top1_scores, emotion_top1_times, now >>

\* text is empty after strip(): 400 before anything is measured
AnalyzeEmptyText ==
    /\ resp' = 400
    /\ call' = AnalyzeCall(<< >>)
    /\ UNCHANGED << metrics_vars, emotion_model_id, analysis_vars, fs, thread_vars, ret >>

\* models.ensure_emotion() raises: no model could be loaded
AnalyzeNoModel ==
    /\ inference_count < MaxRequests
    /\ error_count < MaxErrors
    /\ emotion_model_id = "None"
    /\ AnalyzeFailed
    /\ call' = AnalyzeCall(<< >>)
    /\ UNCHANGED << emotion_model_id, analysis_vars, fs, thread_vars, ret >>

\* both classifier calls of analyze_sentiment raise, or analyze_sentiment
\* returns and both of analyze_emotions raise, after init_vad_mapper has run
\* (the deployment's unknown_labels.json is writable)
AnalyzeClassifierError(calls) ==
    /\ inference_count < MaxRequests
    /\ error_count < MaxErrors
    /\ \E emo_mid \in { IF emotion_model_id = "None" THEN ServiceEmotionDir
                        ELSE emotion_model_id } :
       \E g \in { init_vad_mapper(vad_mapper, vad_status, fs, emo_mid,
                                  ModelLabels(emo_mid), TRUE) } :
           /\ ~g.raised
           /\ emotion_model_id' = emo_mid
           /\ vad_mapper' = g.vad_mapper
           /\ last_emotion_dir' = g.last_emotion_dir
           /\ vad_status' = g.vad_status
    /\ AnalyzeFailed
    /\ call' = AnalyzeCall(calls)
    /\ UNCHANGED << negative_labels, fs, thread_vars, ret >>

\* the request succeeds with emotions_pairs from analyze_emotions: in each of
\* analyze_sentiment and analyze_emotions the first or the second classifier
\* call returned
AnalyzeOk(emotions_pairs, s1, e1) ==
    /\ inference_count < MaxRequests
    /\ ~classify_raises(s1, "ok") /\ ~classify_raises(e1, "ok")
    /\ call' = AnalyzeCall(pipe_calls(s1, "ok") \o pipe_calls(e1, "ok"))
    /\ emotions_pairs = << >> => EmptyCount < MaxEmpty
    /\ \E emo_mid \in { IF emotion_model_id = "None" THEN ServiceEmotionDir
                        ELSE emotion_model_id } :
       \E g1 \in { init_vad_mapper(vad_mapper, vad_status, fs, emo_mid,
                                   ModelLabels(emo_mid), TRUE) } :
       \E canon_pairs \in
            { IF use_emotion_label_alias
              THEN canonicalize_distribution(g1.vad_mapper, fs, emotions_pairs).pairs
              ELSE emotions_pairs } :
       \E vad \in { emotions_to_vad(g1.vad_mapper, fs, canon_pairs).vad } :
       \E g2 \in { derive_stress(g1.vad_mapper, negative_labels, g1.vad_status, fs,
                                 vad[1], vad[2], canon_pairs) } :
       \E top1 \in
            { IF canon_pairs # << >>
              THEN record_emotion_top1(emotion_top1_scores, emotion_top1_times,
                                       now + 1, now + 1)
              ELSE [scores |-> emotion_top1_scores, times |-> emotion_top1_times] } :
           /\ ~g1.raised /\ ~g2.raised
           /\ emotion_model_id' = emo_mid
           /\ vad_mapper' = g2.vad_mapper
           /\ last_emotion_dir' = g1.last_emotion_dir
           /\ vad_status' = g2.vad_status
           /\ negative_labels' = g2.negative_labels
           /\ inference_count' = inference_count + 1
           /\ inference_latencies_ms' =
                 record_latency_ms(inference_latencies_ms, inference_count + 1)
           /\ emotion_top1_scores' = top1.scores
           /\ emotion_top1_times' = top1.times
           /\ now' = IF canon_pairs # << >> THEN now + 1 ELSE now
           /\ resp' = 200
    /\ UNCHANGED << error_count, fs, thread_vars, ret >>

InitService ==
    /\ MetricsAtImport
    /\ AnalysisAtImport
    /\ fs = [default_map |-> "valid", neg_file |-> "absent"]
    /\ call = NoCall
    /\ ret = NoRet

NextService ==
    \/ AnalyzeEmptyText
    \/ AnalyzeNoModel
    \/ \E calls \in FailingPipeCalls(ServiceFirstCalls) : AnalyzeClassifierError(calls)
    \/ \E emotions_pairs \in ServiceEmotionPairs :
       \E s1 \in ServiceFirstCalls, e1 \in ServiceFirstCalls :
           AnalyzeOk(emotions_pairs, s1, e1)

SpecService == InitService /\ [][NextService]_vars

-----------------------------------------------------------------------------
(* A short run of requests against a classifier whose every call may       *)
(* raise (models.py:158-161, 256-259).                                     *)

\* requests handled in one short run
MaxShortRun == 6

RequestNoModel == inference_count < MaxShortRun /\ AnalyzeNoModel

RequestClassifierError ==
    /\ inference_count < MaxShortRun
    /\ \E calls \in FailingPipeCalls(PipeOutcomes) : AnalyzeClassifierError(calls)

RequestOk ==
    /\ inference_count < MaxShortRun
    /\ \E emotions_pairs \in ServiceEmotionPairs :
       \E s1 \in PipeOutcomes, e1 \in PipeOutcomes :
           AnalyzeOk(emotions_pairs, s1, e1)

NextRequest ==
    \/ AnalyzeEmptyText
    \/ RequestNoModel
    \/ RequestClassifierError
    \/ RequestOk

SpecRequest == InitService /\ [][NextRequest]_vars

-----------------------------------------------------------------------------
(* The analysis module driven call by call (analysis.py's public           *)
(* functions on the module globals), for every file system.                *)

\* the label hints a caller passes: none, or the classifier's id2label
LabelHints(dir) == { << >>, ModelLabels(dir) }

\* the distributions handed to the pipeline functions in this specification
VadDistributions ==
    { << >>,
      << << "Joy", Rat(3, 4) >>, << "Sadness", Rat(1, 4) >> >>,
      << << "sad", Rat(1, 2) >>, << "fear", Rat(1, 2) >> >> }

VadValences == { RHalf }
VadArousals == { RHalf }

CallInitVadMapper(emo_dir, emotion_labels, write_ok) ==
    /\ \E g \in { init_vad_mapper(vad_mapper, vad_status, fs, emo_dir,
                                  emotion_labels, write_ok) } :
           /\ vad_mapper' = g.vad_mapper
           /\ last_emotion_dir' = g.last_emotion_dir
           /\ vad_status' = g.vad_status
           /\ ret' = Outcome(g.raised, "None")
    /\ call' = [op |-> "init_vad_mapper", emo_dir |-> emo_dir,
                emotion_labels |-> emotion_labels]
    /\ UNCHANGED << negative_labels, metrics_vars, resp, emotion_model_id, fs, thread_vars >>

CallInitNegativeLabels(emo_dir, emotion_labels) ==
    /\ \E g \in { init_negative_labels(vad_mapper, vad_status, fs, emo_dir,
                                       emotion_labels) } :
           /\ vad_mapper' = g.vad_mapper
           \* a call that raises has assigned nothing
           /\ negative_labels' = IF g.raised THEN negative_labels
                                 ELSE g.negative_labels
           /\ vad_status' = g.vad_status
           /\ ret' = Outcome(g.raised, "None")
    /\ call' = [op |-> "init_negative_labels", emo_dir |-> emo_dir,
                emotion_labels |-> emotion_labels]
    /\ UNCHANGED << last_emotion_dir, metrics_vars, resp, emotion_model_id, fs, thread_vars >>

CallDeriveStress(valence, arousal, distribution) ==
    /\ \E g \in { derive_stress(vad_mapper, negative_labels, vad_status, fs,
                                valence, arousal, distribution) } :
           /\ vad_mapper' = g.vad_mapper
           /\ negative_labels' = g.negative_labels
           /\ vad_status' = g.vad_status
           /\ ret' = Outcome(g.raised, [stress |-> g.stress, level |-> g.level])
    /\ call' = [op |-> "derive_stress", valence |-> valence, arousal |-> arousal,
                distribution |-> distribution, lazy_init |-> negative_labels.is_none]
    /\ UNCHANGED << last_emotion_dir, metrics_vars, resp, emotion_model_id, fs, thread_vars >>

CallEmotionsToVad(distribution) ==
    /\ \E g \in { emotions_to_vad(vad_mapper, fs, distribution) } :
           /\ vad_mapper' = g.vad_mapper
           /\ ret' = Outcome(g.raised, g.vad)
    /\ call' = [op |-> "emotions_to_vad", distribution |-> distribution]
    /\ UNCHANGED << negative_labels, last_emotion_dir, vad_status, metrics_vars,
                    resp, emotion_model_id, fs, thread_vars >>

CallCanonicalizeDistribution(distribution) ==
    /\ \E g \in { canonicalize_distribution(vad_mapper, fs, distribution) } :
           /\ vad_mapper' = g.vad_mapper
           /\ ret' = Outcome(g.raised, g.pairs)
    /\ call' = [op |-> "canonicalize_distribution", distribution |-> distribution]
    /\ UNCHANGED << negative_labels, last_emotion_dir, vad_status, metrics_vars,
                    resp, emotion_model_id, fs, thread_vars >>

CallGetVadStatus ==
    /\ \E g \in { get_vad_status(vad_mapper, fs) } :
           /\ vad_mapper' = g.vad_mapper
           /\ ret' = Outcome(g.raised, vad_status)
    /\ call' = [op |-> "get_vad_status"]
    /\ UNCHANGED << negative_labels, last_emotion_dir, vad_status, metrics_vars,
                    resp, emotion_model_id, fs, thread_vars >>

InitVad ==
    /\ MetricsAtImport
    /\ AnalysisAtImport
    /\ fs \in FileSystems
    /\ call = NoCall
    /\ ret = NoRet

NextVad ==
    \/ \E emo_dir \in EmotionDirs, write_ok \in BOOLEAN :
         \E emotion_labels \in LabelHints(emo_dir) :
            CallInitVadMapper(emo_dir, emotion_labels, write_ok)
    \/ \E emo_dir \in EmotionDirs :
         \E emotion_labels \in LabelHints(emo_dir) :
            CallInitNegativeLabels(emo_dir, emotion_labels)
    \/ \E valence \in VadValences, arousal \in VadArousals,
          distribution \in VadDistributions :
            CallDeriveStress(valence, arousal, distribution)
    \/ \E distribution \in VadDistributions : CallEmotionsToVad(distribution)
    \/ \E distribution \in VadDistributions : CallCanonicalizeDistribution(distribution)
    \/ CallGetVadStatus

SpecVad == InitVad /\ [][NextVad]_vars

-----------------------------------------------------------------------------
(* derive_stress on the module globals, for a range of arguments.          *)

\* pairs in a distribution handed to derive_stress
MaxStressPairs == 2

StressFileSystems ==
    { [default_map |-> "valid", neg_file |-> "absent"],
      [default_map |-> "absent", neg_file |-> "absent"],
      [default_map |-> "valid", neg_file |-> "list"] }

StressValences == { Rat(-1, 1), RZero, Rat(9, 20), ROne, Rat(2, 1) }
StressArousals == { RZero, Rat(3, 20), ROne, Rat(2, 1) }
StressDistributions ==
    SeqsUpTo({"Sadness", "joy", "sad"} \X { Rat(1, 5), ROne }, MaxStressPairs)

\* init_vad_mapper called before the stress call under study
StressInitVadMapper(emo_dir) ==
    /\ ~ret.done
    /\ vad_mapper.is_none
    /\ \E g \in { init_vad_mapper(vad_mapper, vad_status, fs, emo_dir,
                                  ModelLabels(emo_dir), TRUE) } :
           /\ vad_mapper' = g.vad_mapper
           /\ last_emotion_dir' = g.last_emotion_dir
           /\ vad_status' = g.vad_status
    /\ UNCHANGED << negative_labels, metrics_vars, resp, emotion_model_id, fs, thread_vars,
                    call, ret >>

\* the stress call under study
StressDeriveStress ==
    /\ ~ret.done
    /\ \E g \in { derive_stress(vad_mapper, negative_labels, vad_status, fs,
                                call.valence, call.arousal, call.distribution) } :
           /\ vad_mapper' = g.vad_mapper
           /\ negative_labels' = g.negative_labels
           /\ vad_status' = g.vad_status
           /\ ret' = Outcome(g.raised, [stress |-> g.stress, level |-> g.level])
    /\ UNCHANGED << last_emotion_dir, metrics_vars, resp, emotion_model_id, fs, thread_vars, call >>

InitStress ==
    /\ MetricsAtImport
    /\ AnalysisAtImport
    /\ fs \in StressFileSystems
    /\ call \in [op : {"derive_stress"}, valence : StressValences,
                 arousal : StressArousals, distribution : StressDistributions]
    /\ ret = NoRet

NextStress ==
    \/ \E emo_dir \in EmotionDirs : StressInitVadMapper(emo_dir)
    \/ StressDeriveStress

SpecStress == InitStress /\ [][NextStress]_vars

-----------------------------------------------------------------------------
(* VADMapper.map_distribution on the mappers the initialisers build.       *)

\* pairs in a distribution handed to map_distribution
MaxMapPairs == 2

\* the mappers init_vad_mapper and _ensure_default_mapper can leave active
ActiveMappers ==
    { m \in { init_vad_mapper(NoMapper, InitialVadStatus, f, d, << >>, TRUE).vad_mapper :
                f \in FileSystems, d \in EmotionDirs }
              \cup { ensure_default_mapper(NoMapper, f) : f \in FileSystems } :
        ~m.is_none }

MapLabels == { "Joy", "sad", "fear", "Gloom" }
MapScores == { Rat(-1, 2), RZero, Rat(1, 4), ROne }
MapDistributions == SeqsUpTo(MapLabels \X MapScores, MaxMapPairs)

CallMapDistribution ==
    /\ ~ret.done
    /\ ret' = Returned(map_distribution(vad_mapper, call.distribution))
    /\ UNCHANGED << metrics_vars, resp, emotion_model_id, analysis_vars, fs, thread_vars, call >>

InitMapDistribution ==
    /\ MetricsAtImport
    /\ negative_labels = NoNegativeLabels
    /\ last_emotion_dir = "None"
    /\ vad_status = InitialVadStatus
    /\ heap = << >>
    /\ mapper_ref = 0
    /\ writer = Idle
    /\ reader = Idle
    /\ vad_mapper \in ActiveMappers
    /\ fs = [default_map |-> "valid", neg_file |-> "absent"]
    /\ call \in [op : {"map_distribution"}, distribution : MapDistributions]
    /\ ret = NoRet

NextMapDistribution == CallMapDistribution

SpecMapDistribution == InitMapDistribution /\ [][NextMapDistribution]_vars

-----------------------------------------------------------------------------
(* ModelManager.analyze_sentiment for the sentiment models a deployment    *)
(* may hold under ./models/sentiment.                                      *)

\* the model directory ensure_sentiment loads, as path components, and the
\* model's id2label
SentimentModels ==
    { [mid |-> << "/", "srv", "models", "sentiment", "sst2" >>,
       id2label |-> << << "N", "E", "G", "A", "T", "I", "V", "E" >>,
         << "P", "O", "S", "I", "T", "I", "V", "E" >> >>],
      [mid |-> << "/", "srv", "models", "sentiment", "twitter" >>,
       id2label |-> << << "n", "e", "g", "a", "t", "i", "v", "e" >>,
         << "n", "e", "u", "t", "r", "a", "l" >>,
         << "p", "o", "s", "i", "t", "i", "v", "e" >> >>],
      [mid |-> << "/", "srv", "models", "sentiment", "finetuned" >>,
       id2label |-> << << "L", "A", "B", "E", "L", "_", "0" >>,
         << "L", "A", "B", "E", "L", "_", "1" >> >>],
      [mid |-> << "/", "srv", "models", "sentiment", "mixed" >>,
       id2label |-> << << "N", "e", "u" >>,
         << "o", "t", "h", "e", "r" >>,
         << "P", "o", "s" >> >>],
      [mid |-> << "/", "srv", "models", "sentiment", "nlptown",
                  "bert-base-multilingual-uncased-sentiment" >>,
       id2label |-> << << "1", " ", "s", "t", "a", "r" >>,
         << "2", " ", "s", "t", "a", "r", "s" >>,
         << "3", " ", "s", "t", "a", "r", "s" >>,
         << "4", " ", "s", "t", "a", "r", "s" >>,
         << "5", " ", "s", "t", "a", "r", "s" >> >>] }

\* the scores the pipeline may give a label
SentimentRawScores == { RZero, Rat(1, 4), Rat(3, 4) }

\* what pipe(text, top_k=None) may return for a model: a score per label
SentimentRaw(model) ==
    { [i \in 1..Len(model.id2label) |-> << model.id2label[i], f[i] >>] :
        f \in [1..Len(model.id2label) -> SentimentRawScores] }

CallAnalyzeSentiment ==
    /\ ~ret.done
    /\ ret' = Returned(analyze_sentiment(call.model.mid, call.model.id2label,
                                         call.raw, call.neutral_mode))
    /\ UNCHANGED << metrics_vars, resp, emotion_model_id, analysis_vars, fs, thread_vars, call >>

InitSentiment ==
    /\ MetricsAtImport
    /\ AnalysisAtImport
    /\ fs = [default_map |-> "valid", neg_file |-> "absent"]
    /\ \E model \in SentimentModels :
         \E raw \in SentimentRaw(model), neutral_mode \in NeutralModes :
            call = [op |-> "analyze_sentiment", model |-> model, raw |-> raw,
                    neutral_mode |-> neutral_mode]
    /\ ret = NoRet

NextSentiment == CallAnalyzeSentiment

SpecSentiment == InitSentiment /\ [][NextSentiment]_vars

-----------------------------------------------------------------------------
(* ModelManager.analyze_emotions for every raw output and configuration.   *)

\* labels of the emotion classifier whose output is handed to analyze_emotions
MaxEmotionLabels == 3
\* the largest top-K setting
MaxTopK == 2

EmotionLabelNames == << "joy", "sadness", "anger", "fear", "surprise" >>
EmotionRawScores == { RZero, Rat(1, 4), Rat(1, 2), Rat(3, 4) }

\* what pipe(text, top_k=None) may return: a score for each of the first n
\* labels, for some n
EmotionRaw ==
    UNION { { [i \in 1..n |-> << EmotionLabelNames[i], f[i] >>] :
                f \in [1..n -> EmotionRawScores] } :
            n \in 0..(IF MaxEmotionLabels < Len(EmotionLabelNames)
                      THEN MaxEmotionLabels ELSE Len(EmotionLabelNames)) }

\* get_emotion_threshold()
EmotionThresholds == { Rat(3, 10), RHalf, Rat(9, 10) }
\* get_emotion_topk(): 0 stands for "not set"
EmotionTopKs == 0..MaxTopK

CallAnalyzeEmotions ==
    /\ ~ret.done
    /\ ret' = Returned(analyze_emotions(call.raw, call.multi, call.thr, call.topk))
    /\ UNCHANGED << metrics_vars, resp, emotion_model_id, analysis_vars, fs, thread_vars, call >>

InitEmotions ==
    /\ MetricsAtImport
    /\ AnalysisAtImport
    /\ fs = [default_map |-> "valid", neg_file |-> "absent"]
    /\ call \in [op : {"analyze_emotions"}, raw : EmotionRaw, multi : BOOLEAN,
                 thr : EmotionThresholds, topk : EmotionTopKs]
    /\ ret = NoRet

NextEmotions == CallAnalyzeEmotions

SpecEmotions == InitEmotions /\ [][NextEmotions]_vars

-----------------------------------------------------------------------------
(* Claims about the metrics buffers, checked under SpecService.            *)

LatencyCompacts ==
    /\ inference_count' = inference_count + 1
    /\ Len(inference_latencies_ms) + 1 > BufferCap

\* this step records a top-1 sample and the append overflows the cap
Top1Compacts ==
    /\ now' = now + 1
    /\ Len(emotion_top1_scores) + 1 > BufferCap

\* new holds exactly k entries: the last k - 1 of old, in order, then sample
KeepsNewest(old, new, sample, k) ==
    /\ Len(new) = k
    /\ \A i \in 1..(k - 1) : new[i] = old[Len(old) - (k - 1) + i]
    /\ new[k] = sample

\* the entries a buffer holds right after a compaction, as C2 states it
C2_StatedSize == BufferKeep + 1

\* C2 (as stated): a record operation that triggers a compaction leaves
\* exactly 1000 + 1 entries, the most recently recorded ones in their order.
C2_CompactionLeaves1001 ==
    [][ /\ LatencyCompacts =>
            KeepsNewest(inference_latencies_ms, inference_latencies_ms',
                        inference_count', C2_StatedSize)
        /\ Top1Compacts =>
            /\ KeepsNewest(emotion_top1_scores, emotion_top1_scores', now',
                           C2_StatedSize)
            /\ KeepsNewest(emotion_top1_times, emotion_top1_times', now',
                           C2_StatedSize) ]_vars

\* C2 (amended): a record operation that triggers a compaction leaves exactly
\* 1000 entries, the most recently recorded ones (the new sample last) in
\* their original order.
C2_CompactionLeaves1000 ==
    [][ /\ LatencyCompacts =>
            KeepsNewest(inference_latencies_ms, inference_latencies_ms',
                        inference_count', BufferKeep)
        /\ Top1Compacts =>
            /\ KeepsNewest(emotion_top1_scores, emotion_top1_scores', now',
                           BufferKeep)
            /\ KeepsNewest(emotion_top1_times, emotion_top1_times', now',
                           BufferKeep) ]_vars

\* both kinds of buffer have been compacted, the top-1 buffers just now
C2_Witness ==
    /\ inference_count > BufferCap
    /\ now = BufferCap + 1
    /\ Len(emotion_top1_scores) = BufferKeep
    /\ Len(inference_latencies_ms) < BufferCap

\* C3: between calls no metrics buffer holds more than 2000 entries.
C3_BuffersWithinCap ==
    /\ Len(inference_latencies_ms) <= BufferCap
    /\ Len(emotion_top1_scores) <= BufferCap
    /\ Len(emotion_top1_times) <= BufferCap

\* more samples than the cap were recorded into every buffer
C3_Witness ==
    /\ inference_count > BufferCap
    /\ now > BufferCap

\* the step appends one top-1 sample and takes the same drop oldest entries
\* off the scores and off the timestamps
DropsSamePrefix(drop) ==
    /\ drop >= 0
    /\ emotion_top1_scores' =
          SubSeq(Append(emotion_top1_scores, now'), drop + 1,
                 Len(emotion_top1_scores) + 1)
    /\ emotion_top1_times' =
          SubSeq(Append(emotion_top1_times, now'), drop + 1,
                 Len(emotion_top1_times) + 1)

\* C17: the top-1 scores and timestamps always have the same length and the
\* i-th score and the i-th timestamp come from the same call of
\* _record_emotion_top1 (the model tags both with the number of the call);
\* a step that records a sample, compacting or not, removes the same oldest
\* prefix from both.
C17_ScoresAndTimesInLockStep ==
    /\ [](/\ Len(emotion_top1_scores) = Len(emotion_top1_times)
          /\ \A i \in 1..Len(emotion_top1_scores) :
                emotion_top1_scores[i] = emotion_top1_times[i])
    /\ [][ now' = now + 1 =>
              DropsSamePrefix(Len(emotion_top1_scores) + 1
                                - Len(emotion_top1_scores')) ]_vars

\* one sample was recorded after the compaction of the top-1 buffers: the
\* oldest pair left is the one of call 1002
C17_Witness ==
    /\ now = BufferCap + 2
    /\ Len(emotion_top1_scores) = BufferKeep + 1
    /\ emotion_top1_scores[1] = now - BufferKeep
    /\ emotion_top1_times[1] = now - BufferKeep

-----------------------------------------------------------------------------
(* Claims about the negative labels and the fallback of the VAD table,     *)
(* checked under SpecVad.                                                  *)

\* the label sets init_negative_labels can load or derive for the active
\* table: from the file, or by the threshold over the table's own keys or
\* over some classifier's labels
NegativeLabelsForActiveTable ==
    { init_negative_labels(vad_mapper, vad_status, fs, DefaultEmotionDir, hint).negative_labels.labels :
        hint \in { << >> } \cup { ModelLabels(d) : d \in EmotionDirs } }

\* C4 (as stated): after any sequence of init_vad_mapper calls, the negative
\* labels derive_stress has used are those loaded or derived for the VAD table
\* that is active, never those of an earlier table.
C4_NegativeLabelsFollowActiveTable ==
    (call.op = "derive_stress" /\ ret.done)
        => negative_labels.labels \in NegativeLabelsForActiveTable

\* C5 (as stated): after init_vad_mapper for a classifier for which no
\* mapping of its own is found, the active table is the project default, or
\* the neutral-only table when default.json is absent too, whatever mapper
\* was active before.
C5_NoSpecificMappingGivesDefault ==
    (/\ call.op = "init_vad_mapper" /\ ret.done
     /\ get_vad_config_paths(fs, call.emo_dir).map \in { "None", DefaultMapPath })
        => vad_mapper.mapping =
             IF fs.default_map = "valid"
             THEN LowerKeyed(load_mapping_from_json(DefaultMapFile))
             ELSE LowerKeyed(NeutralOnlyMapping)

-----------------------------------------------------------------------------
(* Claims about analyze_sentiment, checked under SpecSentiment.            *)

\* C6 (as stated): the scores analyze_sentiment returns sum to 1, over the
\* keys {positive, negative} when the mode resolves to no neutral (off, or
\* auto without a native neutral label) and {positive, negative, neutral}
\* otherwise, for every raw distribution.
C6_SentimentScoresSumToOne ==
    (call.op = "analyze_sentiment" /\ ret.done)
        => /\ RSum(DictValues(ret.value.scores)) = ROne
           /\ DictKeys(ret.value.scores) =
                IF \/ call.neutral_mode = "off"
                   \/ (call.neutral_mode = "auto" /\ ~model_has_neutral(call.model.id2label))
                THEN { "positive", "negative" }
                ELSE { "positive", "negative", "neutral" }

\* the star rating a label of the form "<n> star(s)" names, -1 for others
StarOf(label) == ParseInt(FirstToken(label))

\* every label of the raw output is a star rating
StarForm(raw) == \A i \in 1..Len(raw) : StarOf(raw[i][1]) \in 1..5

\* the mass the raw output gives the ratings in stars
StarMass(raw, stars) ==
    RSum([i \in 1..Len(raw) |->
            IF StarOf(raw[i][1]) \in stars THEN raw[i][2] ELSE RZero])

\* the scores as a function on the keys
ScoresOf(scores) ==
    [k \in DictKeys(scores) |-> DictGet(scores, k, RZero)]

\* C14: for a distribution over "<n> star(s)" labels with some mass, the
\* scores are negative = mass(1,2), neutral = mass(3), positive = mass(4,5),
\* each over the total; under "off" they are positive and negative over
\* their sum, or positive 1 and negative 0 when both are zero.
C14_StarRatingsBucketed ==
    (/\ call.op = "analyze_sentiment" /\ ret.done
     /\ StarForm(call.raw)
     /\ RLt(RZero, StarMass(call.raw, 1..5)))
        => ScoresOf(ret.value.scores) =
             IF call.neutral_mode # "off"
             THEN [k \in { "negative", "neutral", "positive" } |->
                     RDiv(StarMass(call.raw, CASE k = "negative" -> { 1, 2 }
                                               [] k = "neutral" -> { 3 }
                                               [] OTHER -> { 4, 5 }),
                          StarMass(call.raw, 1..5))]
             ELSE IF StarMass(call.raw, { 1, 2, 4, 5 }) = RZero
             THEN [k \in { "positive", "negative" } |->
                     IF k = "positive" THEN ROne ELSE RZero]
             ELSE [k \in { "positive", "negative" } |->
                     RDiv(StarMass(call.raw, IF k = "negative" THEN { 1, 2 }
                                             ELSE { 4, 5 }),
                          StarMass(call.raw, { 1, 2, 4, 5 }))]

-----------------------------------------------------------------------------
(* Claims about analyze_emotions, checked under SpecEmotions.              *)

\* sum(max(0, s)) over a raw output
ClippedSum(raw) ==
    RSum([i \in 1..Len(raw) |-> RMax(RZero, raw[i][2])])

\* C7 (as stated): in single-label mode the returned scores sum to 1, or are
\* uniform when the sum before normalisation is <= 0, for every raw output
\* and every top-K.
C7_SingleLabelSumsToOne ==
    (call.op = "analyze_emotions" /\ ~call.multi /\ ret.done)
        => IF RLt(RZero, ClippedSum(call.raw))
           THEN RSum([i \in 1..Len(ret.value) |-> ret.value[i][2]]) = ROne
           ELSE /\ Len(ret.value) = Len(call.raw)
                /\ \A i \in 1..Len(ret.value) :
                      ret.value[i][2] = Rat(1, Len(ret.value))

\* no entry of the raw output reaches the threshold
NoneReachesThreshold ==
    \A i \in 1..Len(call.raw) : RLt(call.raw[i][2], call.thr)

\* C8: in multi-label mode a non-empty raw output gives a non-empty result,
\* for every threshold and top-K; when no entry reaches the threshold the
\* result is exactly one entry, an entry of the input of the highest score.
C8_MultiLabelNeverEmpty ==
    (call.op = "analyze_emotions" /\ call.multi /\ ret.done /\ call.raw # << >>)
        => /\ ret.value # << >>
           /\ NoneReachesThreshold
                => /\ Len(ret.value) = 1
                   /\ \E i \in 1..Len(call.raw) : call.raw[i] = ret.value[1]
                   /\ \A i \in 1..Len(call.raw) :
                         RLe(call.raw[i][2], ret.value[1][2])

\* a multi-label call where no entry reaches the threshold and the highest
\* score is not the first entry's
C8_Witness ==
    /\ call.op = "analyze_emotions" /\ call.multi /\ ret.done
    /\ Len(call.raw) > 1
    /\ NoneReachesThreshold
    /\ RLt(call.raw[1][2], call.raw[2][2])
    /\ ret.value = << call.raw[2] >>

-----------------------------------------------------------------------------
(* Claims about map_distribution, checked under SpecMapDistribution.       *)

\* the VAD vector of a label, read off the active mapper's tables
TableVector(l) ==
    LET key == IF Lower(l) \in DOMAIN vad_mapper.alias
               THEN vad_mapper.alias[Lower(l)] ELSE Lower(l)
    IN  IF key \in DOMAIN vad_mapper.mapping THEN vad_mapper.mapping[key]
        ELSE << Rat(1, 2), Rat(1, 2), Rat(1, 2) >>

TotalScore(D) == RSum([i \in 1..Len(D) |-> D[i][2]])

WeightedAxis(D, k) == RSum([i \in 1..Len(D) |-> RMul(D[i][2], TableVector(D[i][1])[k])])

\* C9: map_distribution(D) is, axis by axis, the sum of score * axis over the
\* sum of the scores (a label missing from the table counting as
\* (0.5, 0.5, 0.5)) when the total score is > 0, and (0.5, 0.5, 0.5) when D is
\* empty or its total is <= 0; unknown labels never make it fail.
C9_MapDistributionIsWeightedAverage ==
    (call.op = "map_distribution" /\ ret.done)
        => IF call.distribution = << >> \/ RLe(TotalScore(call.distribution), RZero)
           THEN ret.value = << Rat(1, 2), Rat(1, 2), Rat(1, 2) >>
           ELSE \A k \in 1..3 :
                   ret.value[k] = RDiv(WeightedAxis(call.distribution, k),
                                       TotalScore(call.distribution))

\* a distribution of a known and an unknown label, mapped by a table that
\* knows the first through an alias
C9_Witness ==
    /\ call.op = "map_distribution" /\ ret.done
    /\ call.distribution = << << "sad", ROne >>, << "Gloom", Rat(1, 4) >> >>
    /\ "sad" \in DOMAIN vad_mapper.alias
    /\ ret.value # NeutralVAD

-----------------------------------------------------------------------------
(* Claims about derive_stress, checked under SpecStress.                   *)

\* C10: derive_stress returns a score in [0, 1]; the level is low exactly
\* when score < 0.33, medium exactly when 0.33 <= score < 0.66 and high
\* exactly when score >= 0.66, for every valence, arousal and distribution.
C10_StressBoundedAndBucketed ==
    (call.op = "derive_stress" /\ ret.done)
        => LET n == ret.value.stress[1]
               d == ret.value.stress[2]
           IN  /\ d > 0 /\ 0 <= n /\ n <= d
               /\ (ret.value.level = "low") <=> (100 * n < 33 * d)
               /\ (ret.value.level = "medium") <=> (33 * d <= 100 * n /\ 100 * n < 66 * d)
               /\ (ret.value.level = "high") <=> (66 * d <= 100 * n)

\* a stress of exactly 0.33, reported as medium
C10_Witness ==
    /\ call.op = "derive_stress" /\ ret.done
    /\ ret.value.stress = Rat(33, 100)
    /\ ret.value.level = "medium"

\* the entries of D whose lower-cased, alias-resolved label is a negative label
NegativeEntries(D) ==
    { i \in 1..Len(D) :
        LET l == Lower(D[i][1])
        IN  (IF l \in DOMAIN vad_mapper.alias THEN vad_mapper.alias[l] ELSE l)
               \in negative_labels.labels }

\* the sum of the scores of the negative entries of D
NegMass(D) ==
    RSum([i \in 1..Len(D) |-> IF i \in NegativeEntries(D) THEN D[i][2] ELSE RZero])

\* 0.6 * (1 - valence) + 0.4 * arousal + 0.15 * neg_mass
RawStress(valence, arousal, neg_mass) ==
    RAdd(RAdd(RMul(Rat(6, 10), RSub(ROne, valence)), RMul(Rat(4, 10), arousal)),
         RMul(Rat(15, 100), neg_mass))

\* x clamped to [0, 1]
Clamp01(x) == IF RLt(x, RZero) THEN RZero ELSE IF RLt(ROne, x) THEN ROne ELSE x

\* C11: the score derive_stress returns is
\* clamp(0.6 * (1 - valence) + 0.4 * arousal + 0.15 * neg_mass), neg_mass being
\* the sum of the scores of exactly the entries whose canonical label is in
\* the negative-label set.
C11_StressScoreFormula ==
    (call.op = "derive_stress" /\ ret.done)
        => ret.value.stress =
             Clamp01(RawStress(call.valence, call.arousal, NegMass(call.distribution)))

\* an aliased label counts as negative mass and the score is not clamped
C11_Witness ==
    /\ call.op = "derive_stress" /\ ret.done
    /\ call.distribution = << << "sad", ROne >>, << "joy", Rat(1, 5) >> >>
    /\ NegativeEntries(call.distribution) = { 1 }
    /\ RLt(RZero, ret.value.stress) /\ RLt(ret.value.stress, ROne)

-----------------------------------------------------------------------------
(* Claims about the lazy initialisation of the negative labels, checked    *)
(* under SpecVad.                                                          *)

\* C12 (as stated): a derive_stress call made while the negative labels are
\* uninitialised initialises them with no label hints and still returns a
\* (score, level) result; after a derive_stress call the negative labels are
\* initialised and their source tag is file or derived.
C12_LazyInitNeverFails ==
    (call.op = "derive_stress")
        => /\ ret.done
           /\ ret.value.level \in { "low", "medium", "high" }
           /\ ~negative_labels.is_none
           /\ vad_status.negative_labels_source \in { "file", "derived" }
           /\ call.lazy_init =>
                negative_labels.labels =
                    init_negative_labels(vad_mapper, vad_status, fs,
                                         DefaultEmotionDir, << >>).negative_labels.labels

-----------------------------------------------------------------------------
(* _percentile (main.py:37-44) over small lists of samples.                *)

\* sorted(values) left as the caller passed it
sorted_asc_Unsorted(values) == values

\* sorted(values): ascending, by insertion of the last element
RECURSIVE sorted_asc(_)
sorted_asc(values) ==
    IF values = << >> THEN << >>
    ELSE LET place(rest, x) ==
                 LET k == Cardinality({ i \in 1..Len(rest) : rest[i] <= x })
                 IN  SubSeq(rest, 1, k) \o << x >> \o SubSeq(rest, k + 1, Len(rest))
         IN  place(sorted_asc(SubSeq(values, 1, Len(values) - 1)),
                   values[Len(values)])

\* int(x) of a rational x: truncation towards zero
int(x) ==
    IF x[1] >= 0 THEN x[1] \div x[2] ELSE -((-x[1]) \div x[2])

\* _percentile(values, q); "None" stands for None, idx counts from 0
percentile(values, q) ==
    IF values = << >> THEN "None"
    ELSE LET min(a, b) == IF a < b THEN a ELSE b
             max(a, b) == IF a > b THEN a ELSE b
             pick(s, n, idx) == s[1 + max(0, min(idx, n - 1))]
         IN  pick(sorted_asc(values), Len(values),
                  int(RMul(q, Rat(Len(values) - 1, 1))))

\* longest list of samples
MaxPercentileLen == 4

\* the samples of a list
PercentileSamples == { 10, 20, 30 }

\* the lists of samples: every short list, and the five samples 10..50
PercentileValues ==
    SeqsUpTo(PercentileSamples, MaxPercentileLen)
        \cup { << 10, 20, 30, 40, 50 >>, << 40, 10, 50, 30, 20 >> }

\* the ranks asked for: those of /metrics (main.py:233-235), the ends, and
\* ranks outside [0, 1]
PercentileRanks ==
    { Rat(-1, 3), RZero, Rat(1, 2), Rat(19, 20), Rat(99, 100), ROne, Rat(3, 2) }

CallPercentile ==
    /\ ~ret.done
    /\ ret' = Returned(percentile(call.values, call.q))
    /\ UNCHANGED << metrics_vars, resp, emotion_model_id, analysis_vars, fs, thread_vars, call >>

InitPercentile ==
    /\ MetricsAtImport
    /\ AnalysisAtImport
    /\ fs = [default_map |-> "valid", neg_file |-> "absent"]
    /\ \E values \in PercentileValues, q \in PercentileRanks :
          call = [op |-> "percentile", values |-> values, q |-> q]
    /\ ret = NoRet

NextPercentile == CallPercentile

SpecPercentile == InitPercentile /\ [][NextPercentile]_vars

-----------------------------------------------------------------------------
(* Two handlers at once: one inside init_vad_mapper, one inside            *)
(* VADMapper.map_distribution.  VADMapper objects live on a heap, so that   *)
(* holding an object and holding its value are different things.            *)

\* most VADMapper objects built in one run
MaxObjects == 3

\* the file systems of these runs
ReaderFileSystems ==
    { [default_map |-> "valid", neg_file |-> "absent"],
      [default_map |-> "absent", neg_file |-> "absent"] }

\* the distribution the reading handler maps
ReaderDistribution == << << "Sad", RHalf >>, << "joy", RHalf >> >>

\* init_vad_mapper constructs a VADMapper: always from a map file it found
\* (analysis.py:119-126), else only when there is none yet (analysis.py:90-99)
builds_mapper(mapper, files, emo_dir) ==
    get_vad_config_paths(files, emo_dir).map # "None" \/ mapper.is_none

\* an assignment that copies the new table into the object in use
assign_vad_mapper_InPlace(h, ref, obj) ==
    IF ref = 0 THEN [heap |-> h, mapper_ref |-> obj]
    ELSE [heap |-> [h EXCEPT ![ref] = h[obj]], mapper_ref |-> ref]

\* `_vad_mapper = mapper` (analysis.py:95, 99, 127): the global names the
\* object, no object changes
assign_vad_mapper(h, ref, obj) == [heap |-> h, mapper_ref |-> obj]

\* init_vad_mapper up to the construction of the VADMapper, which nothing
\* names yet but the handler's local variable
WriterBuild(emo_dir) ==
    /\ writer.pc = "idle"
    /\ Len(heap) < MaxObjects
    /\ \E g \in { init_vad_mapper(vad_mapper, vad_status, fs, emo_dir,
                                  ModelLabels(emo_dir), TRUE) } :
       \E new \in { builds_mapper(vad_mapper, fs, emo_dir) } :
           /\ ~g.raised
           /\ heap' = IF new THEN Append(heap, g.vad_mapper) ELSE heap
           /\ writer' = [pc |-> "built",
                         obj |-> IF new THEN Len(heap) + 1 ELSE mapper_ref,
                         vad_status |-> g.vad_status]
    /\ last_emotion_dir' = emo_dir
    /\ UNCHANGED << vad_mapper, negative_labels, vad_status, mapper_ref, reader,
                    metrics_vars, resp, emotion_model_id, fs, call, ret >>

\* the assignment to the global
WriterAssign ==
    /\ writer.pc = "built"
    /\ \E a \in { assign_vad_mapper(heap, mapper_ref, writer.obj) } :
           /\ heap' = a.heap
           /\ mapper_ref' = a.mapper_ref
           /\ vad_mapper' = a.heap[a.mapper_ref]
    /\ writer' = [writer EXCEPT !.pc = "assigned"]
    /\ UNCHANGED << negative_labels, last_emotion_dir, vad_status, reader,
                    metrics_vars, resp, emotion_model_id, fs, call, ret >>

\* the rest of init_vad_mapper: unknown labels and status (analysis.py:131-150)
WriterReturn ==
    /\ writer.pc = "assigned"
    /\ vad_status' = writer.vad_status
    /\ writer' = Idle
    /\ UNCHANGED << vad_mapper, negative_labels, last_emotion_dir, heap, mapper_ref,
                    reader, metrics_vars, resp, emotion_model_id, fs, call, ret >>

\* emotions_to_vad calls _vad_mapper.map_distribution (analysis.py:237): self
\* is the object the global names now; entered keeps what it held then
ReaderEnter ==
    /\ reader.pc = "idle"
    /\ mapper_ref # 0
    /\ reader' = [pc |-> "loop", self |-> mapper_ref, entered |-> heap[mapper_ref],
                  read |-> << >>]
    /\ UNCHANGED << analysis_vars, heap, mapper_ref, writer,
                    metrics_vars, resp, emotion_model_id, fs, call, ret >>

\* one round of the loop of map_distribution: self.map_label(label)
\* (analysis.py:53-54)
ReaderMapLabel ==
    /\ reader.pc = "loop"
    /\ Len(reader.read) < Len(ReaderDistribution)
    /\ reader' = [reader EXCEPT !.read =
                     Append(@, map_label(heap[reader.self],
                                         ReaderDistribution[Len(@) + 1][1]))]
    /\ UNCHANGED << analysis_vars, heap, mapper_ref, writer,
                    metrics_vars, resp, emotion_model_id, fs, call, ret >>

\* map_distribution returns
ReaderReturn ==
    /\ reader.pc = "loop"
    /\ Len(reader.read) = Len(ReaderDistribution)
    /\ reader' = Idle
    /\ UNCHANGED << analysis_vars, heap, mapper_ref, writer,
                    metrics_vars, resp, emotion_model_id, fs, call, ret >>

InitReaders ==
    /\ MetricsAtImport
    /\ AnalysisAtImport
    /\ fs \in ReaderFileSystems
    /\ call = NoCall
    /\ ret = NoRet

NextReaders ==
    \/ \E emo_dir \in EmotionDirs : WriterBuild(emo_dir)
    \/ WriterAssign
    \/ WriterReturn
    \/ ReaderEnter
    \/ ReaderMapLabel
    \/ ReaderReturn

SpecReaders == InitReaders /\ [][NextReaders]_vars

-----------------------------------------------------------------------------
(* Claims about a failing classifier, checked under SpecRequest.           *)

\* a classifier call of the request recorded in c raised
ClassifierFailed(c) ==
    c.op = "analyze" /\ \E i \in DOMAIN c.pipe_calls : c.pipe_calls[i] = "raise"

\* no classifier call of the request recorded in c follows one that raised
NotCalledAgain(c) ==
    \A i \in DOMAIN c.pipe_calls :
        c.pipe_calls[i] = "raise" => i = Len(c.pipe_calls)

\* C13: a request in which a classifier call raises ends with the error
\* result, makes no classifier call after the one that raised, records
\* exactly one latency sample, adds exactly one to the error counter and
\* appends no top-1 sample.
C13_FailedClassifierCallEndsRequest ==
    [][ ClassifierFailed(call')
            => /\ resp' = 500
               /\ NotCalledAgain(call')
               /\ inference_count' = inference_count + 1
               /\ inference_latencies_ms' =
                     record_latency_ms(inference_latencies_ms, inference_count')
               /\ error_count' = error_count + 1
               /\ emotion_top1_scores' = emotion_top1_scores
               /\ emotion_top1_times' = emotion_top1_times ]_vars

-----------------------------------------------------------------------------
(* Claims about init_negative_labels, checked under SpecVad.               *)

\* the labels negative_emotions.json lists, in the set's lower case
ListedNegativeLabels ==
    LET data == NegFileData(fs.neg_file)
    IN  { Lower(data.items[i]) : i \in 1..Len(data.items) }
            \cup { Lower(data.pairs[i][1]) :
                     i \in { j \in 1..Len(data.pairs) : data.pairs[j][2] } }

\* the candidates of the derivation: the labels passed, else the table's keys
Candidates ==
    IF call.emotion_labels # << >>
    THEN { call.emotion_labels[i] : i \in 1..Len(call.emotion_labels) }
    ELSE DOMAIN vad_mapper.mapping

-----------------------------------------------------------------------------
(* Claims about _percentile, checked under SpecPercentile.                 *)

\* floor(q * (n - 1)) clamped to [0, n - 1]
NearestRank(q, n) ==
    LET clamp(i) == IF i < 0 THEN 0 ELSE IF i > n - 1 THEN n - 1 ELSE i
        floor(x) == x[1] \div x[2]
    IN  clamp(floor(RMul(q, Rat(n - 1, 1))))

\* v stands at index k (from 0) of the ascending sort of values
AtSortedIndex(values, k, v) ==
    /\ Cardinality({ i \in 1..Len(values) : values[i] < v }) <= k
    /\ k < Cardinality({ i \in 1..Len(values) : values[i] <= v })

\* C16: percentile(values, q) is the element at index floor(q * (n - 1)),
\* clamped to [0, n - 1], of the ascending sort of values, and null for an
\* empty list; percentile([10,20,30,40,50], 0.5) = 30.
C16_PercentileIsNearestRank ==
    (call.op = "percentile" /\ ret.done)
        => /\ call.values = << >> => ret.value = "None"
           /\ call.values # << >> =>
                 /\ \E i \in 1..Len(call.values) : call.values[i] = ret.value
                 /\ AtSortedIndex(call.values,
                                  NearestRank(call.q, Len(call.values)), ret.value)
           /\ (call.values = << 10, 20, 30, 40, 50 >> /\ call.q = Rat(1, 2))
                 => ret.value = 30

\* the 0.95 rank of an unsorted list with a repeated sample: index
\* floor(0.95 * 3) = 2 of the sort 10, 20, 20, 30
C16_Witness ==
    /\ call.op = "percentile" /\ ret.done
    /\ call.values = << 30, 20, 10, 20 >>
    /\ call.q = Rat(19, 20)
    /\ ret.value = 20

\* C18: after init_negative_labels has returned, from the file or by
\* derivation, every member of the negative labels is canonical under the
\* active alias table: canonical(m) = m.
C18_NegativeLabelsAreCanonical ==
    (call.op = "init_negative_labels" /\ ret.done)
        => \A m \in negative_labels.labels : canonical(vad_mapper, m) = m

-----------------------------------------------------------------------------
(* Claims about re-initialisation under readers, checked under SpecReaders. *)

\* the tables init_vad_mapper builds from the files of one directory
WholeTables ==
    { init_vad_mapper(NoMapper, InitialVadStatus, files, emo_dir, << >>,
                      TRUE).vad_mapper :
        files \in ReaderFileSystems, emo_dir \in EmotionDirs }

=============================================================================
